---- MODULE Spec2Model ----
(***************************************************************************)
(* Pairwise Euclidean distance matrices of the notebook                    *)
(* 2dv516-python-2-part-1-broadcasting.ipynb: loop1, loop2, broadcast1,    *)
(* broadcast2, and the element-wise products mult_vect, mult_loop_vect,    *)
(* mult_loop.                                                              *)
(*                                                                         *)
(* Datasets hold small integers stored as float64.  On such values the     *)
(* float64 subtraction, squaring, product and summation of the code are    *)
(* exact, so they are computed on integers; np.sqrt is the IEEE-754        *)
(* correctly rounded binary64 square root and is computed bit for bit.     *)
(***************************************************************************)
EXTENDS Integers, Naturals, Sequences, FiniteSets, TLC

(***************************************************************************)
(* Natural numbers of arbitrary size: little-endian sequences of limbs in  *)
(* 0..Base-1 without leading zero limbs (<<>> is 0).  They carry the       *)
(* 53-bit significands of float64.                                         *)
(***************************************************************************)
Base == 2 ^ 15

RECURSIVE BNorm(_)
BNorm(a) ==
  IF Len(a) > 0 /\ a[Len(a)] = 0 THEN BNorm(SubSeq(a, 1, Len(a) - 1)) ELSE a

Limb(a, k) == IF k <= Len(a) THEN a[k] ELSE 0

RECURSIVE BFromNat(_)
BFromNat(n) == IF n = 0 THEN <<>> ELSE <<n % Base>> \o BFromNat(n \div Base)

RECURSIVE BAddFrom(_, _, _, _)
BAddFrom(a, b, k, c) ==
  IF k > Len(a) /\ k > Len(b)
  THEN IF c = 0 THEN <<>> ELSE <<c>>
  ELSE LET t == Limb(a, k) + Limb(b, k) + c
       IN  <<t % Base>> \o BAddFrom(a, b, k + 1, t \div Base)

BAdd(a, b) == BAddFrom(a, b, 1, 0)

\* a - b for a >= b
RECURSIVE BSubFrom(_, _, _, _)
BSubFrom(a, b, k, c) ==
  IF k > Len(a)
  THEN <<>>
  ELSE LET t == Limb(a, k) - Limb(b, k) - c
       IN  IF t < 0
           THEN <<t + Base>> \o BSubFrom(a, b, k + 1, 1)
           ELSE <<t>> \o BSubFrom(a, b, k + 1, 0)

BSub(a, b) == BNorm(BSubFrom(a, b, 1, 0))

\* -1, 0, 1 as a < b, a = b, a > b
RECURSIVE BCmpFrom(_, _, _)
BCmpFrom(a, b, k) ==
  IF k = 0 THEN 0
  ELSE IF a[k] < b[k] THEN -1
  ELSE IF a[k] > b[k] THEN 1
  ELSE BCmpFrom(a, b, k - 1)

BCmp(a, b) ==
  IF Len(a) < Len(b) THEN -1
  ELSE IF Len(a) > Len(b) THEN 1
  ELSE BCmpFrom(a, b, Len(a))

\* a * c for 0 <= c < Base
RECURSIVE BMulSmallFrom(_, _, _, _)
BMulSmallFrom(a, c, k, carry) ==
  IF k > Len(a)
  THEN IF carry = 0 THEN <<>> ELSE <<carry>>
  ELSE LET t == a[k] * c + carry
       IN  <<t % Base>> \o BMulSmallFrom(a, c, k + 1, t \div Base)

BMulSmall(a, c) == IF c = 0 THEN <<>> ELSE BMulSmallFrom(a, c, 1, 0)

Zeros(n) == [k \in 1..n |-> 0]

\* a * Base^n
BShiftLimbs(a, n) == IF a = <<>> THEN <<>> ELSE Zeros(n) \o a

RECURSIVE BMulFrom(_, _, _)
BMulFrom(a, b, k) ==
  IF k > Len(b) THEN <<>>
  ELSE BAdd(BShiftLimbs(BMulSmall(a, b[k]), k - 1), BMulFrom(a, b, k + 1))

BMul(a, b) == BMulFrom(a, b, 1)

\* a * 2^n
BShl(a, n) == BShiftLimbs(BMulSmall(a, 2 ^ (n % 15)), n \div 15)

\* floor(a / 2^n)
BShr(a, n) ==
  LET q == n \div 15
      r == n % 15
      d == IF q >= Len(a) THEN <<>> ELSE SubSeq(a, q + 1, Len(a))
  IN  BNorm([k \in 1..Len(d) |->
               (d[k] \div (2 ^ r)) + (Limb(d, k + 1) % (2 ^ r)) * (2 ^ (15 - r))])

RECURSIVE NatBitLen(_)
NatBitLen(n) == IF n = 0 THEN 0 ELSE 1 + NatBitLen(n \div 2)

BBitLen(a) == IF a = <<>> THEN 0 ELSE 15 * (Len(a) - 1) + NatBitLen(a[Len(a)])

BIsOdd(a) == a # <<>> /\ a[1] % 2 = 1

\* floor(sqrt(n)), one result bit at a time from bit k down
RECURSIVE BSqrtFrom(_, _, _)
BSqrtFrom(n, r, k) ==
  IF k < 0 THEN r
  ELSE LET c == BAdd(r, BShl(<<1>>, k))
       IN  IF BCmp(BMul(c, c), n) <= 0
           THEN BSqrtFrom(n, c, k - 1)
           ELSE BSqrtFrom(n, r, k - 1)

BSqrt(n) == BSqrtFrom(n, <<>>, BBitLen(n) \div 2)

(***************************************************************************)
(* float64 values: sgn in {0,1}, the significand man in [2^52, 2^53) and   *)
(* the value man * 2^(exp - 52); zero has man = <<>>.                      *)
(***************************************************************************)
Precision == 53

FZero == [sgn |-> 0, exp |-> 0, man |-> <<>>]

\* n * 2^(e - (Precision-1)) rounded to nearest, ties to even
FRound(sgn, n, e) ==
  IF n = <<>> THEN FZero
  ELSE LET len == BBitLen(n)
       IN  IF len <= Precision
           THEN [sgn |-> sgn, exp |-> e + len - Precision,
                 man |-> BShl(n, Precision - len)]
           ELSE LET sh   == len - Precision
                    q    == BShr(n, sh)
                    rem  == BSub(n, BShl(q, sh))
                    half == BShl(<<1>>, sh - 1)
                    c    == BCmp(rem, half)
                    up   == c > 0 \/ (c = 0 /\ BIsOdd(q))
                    m    == IF up THEN BAdd(q, <<1>>) ELSE q
                IN  IF BBitLen(m) > Precision
                    THEN [sgn |-> sgn, exp |-> e + sh + 1, man |-> BShr(m, 1)]
                    ELSE [sgn |-> sgn, exp |-> e + sh, man |-> m]

\* the float64 of an integer
FromInt(n) ==
  IF n >= 0 THEN FRound(0, BFromNat(n), Precision - 1)
  ELSE FRound(1, BFromNat(0 - n), Precision - 1)

\* np.sqrt of the float64 that holds the integer s >= 0: the correctly
\* rounded square root (the root of an integer is never a rounding tie)
FSqrt(s) ==
  IF s = 0 THEN FZero
  ELSE LET e  == (NatBitLen(s) - 1) \div 2
           n  == BShl(BFromNat(s), 2 * (Precision - 1 - e))
           r  == BSqrt(n)
           up == BCmp(BSub(n, BMul(r, r)), r) > 0
           m  == IF up THEN BAdd(r, <<1>>) ELSE r
       IN  IF BBitLen(m) > Precision
           THEN [sgn |-> 0, exp |-> e + 1, man |-> BShr(m, 1)]
           ELSE [sgn |-> 0, exp |-> e, man |-> m]

FMin(a, b) == IF a < b THEN a ELSE b

\* float64 addition of two non-negative values
FAdd(a, b) ==
  IF a.man = <<>> THEN b
  ELSE IF b.man = <<>> THEN a
  ELSE LET lo == FMin(a.exp, b.exp)
       IN  FRound(0, BAdd(BShl(a.man, a.exp - lo), BShl(b.man, b.exp - lo)), lo)

\* a <= b on non-negative values
FLeAbs(a, b) ==
  IF a.man = <<>> THEN TRUE
  ELSE IF b.man = <<>> THEN FALSE
  ELSE IF a.exp # b.exp THEN a.exp < b.exp
  ELSE BCmp(a.man, b.man) <= 0

\* a <= b
FLe(a, b) ==
  IF a.sgn = 0 /\ b.sgn = 0 THEN FLeAbs(a, b)
  ELSE IF a.sgn = 1 /\ b.sgn = 1 THEN FLeAbs(b, a)
  ELSE IF a.sgn = 1 THEN TRUE
  ELSE a.man = <<>> /\ b.man = <<>>

\* a <= b * (1 + 10^-9), decided exactly, for non-negative a and b
FLeWithin(a, b) ==
  \/ FLeAbs(a, b)
  \/ /\ b.man # <<>>
     /\ LET lo == FMin(a.exp, b.exp)
        IN  BCmp(BMul(BShl(a.man, a.exp - lo), BFromNat(1000000000)),
                 BMul(BShl(b.man, b.exp - lo), BFromNat(1000000001))) <= 0

(***************************************************************************)
(* Bounds of the model.                                                    *)
(***************************************************************************)
\* rows of a data set
MaxN == 3
\* features of a data set
MaxDim == 2
\* the data of the benchmark cell holds values 0..MaxVal
MaxVal == 4
\* the data of the stepwise calls holds values 0..StepMaxVal
StepMaxVal == 1
\* workers that share the outer loop
NWorkers == 2

(***************************************************************************)
(* numpy arrays.  A 2-D float array is [shape |-> <<n, d>>, data |-> the n *)
(* rows of d numbers]; rows of unequal lengths can only be held as a 1-D   *)
(* object array of lists, [shape |-> <<n>>, data |-> the n lists].         *)
(***************************************************************************)
Array2(n, d, v) ==
  {[shape |-> <<n, d>>, data |-> m] : m \in [1..n -> [1..d -> 0..v]]}

\* well-formed data sets: n >= 1 rows of d >= 1 values in 0..v
Datasets(v) ==
  UNION {Array2(p[1], p[2], v) : p \in (1..MaxN) \X (1..MaxDim)}

\* np.sqrt on the float64 of an integer, from a table of the roots in use
SqrtTable == [s \in 0..(MaxDim * MaxVal * MaxVal) |-> FSqrt(s)]

np_sqrt(s) == IF s \in DOMAIN SqrtTable THEN SqrtTable[s] ELSE FSqrt(s)

\* np.sum of a 1-D array: fewer than 8 elements are added left to right
RECURSIVE np_sum_from(_, _, _)
np_sum_from(z, k, acc) ==
  IF k > Len(z) THEN acc ELSE np_sum_from(z, k + 1, acc + z[k])

np_sum(z) == np_sum_from(z, 1, 0)

\* the loop of eucl_dist: z[i] = (x[i] - y[i])**2 for i in range(x.shape[0])
RECURSIVE eucl_fill(_, _, _, _)
eucl_fill(x, y, z, i) ==
  IF i >= Len(x) THEN z
  ELSE eucl_fill(x, y, [z EXCEPT ![i + 1] = (x[i + 1] - y[i + 1]) ^ 2], i + 1)

\* eucl_dist with the sign of y slipped: (x[i] + y[i])**2
eucl_dist_plus(x, y) ==
  np_sqrt(np_sum([k \in 1..Len(x) |-> (x[k] + y[k]) ^ 2]))

\* eucl_dist that returns the sum of squares, np.sqrt forgotten
eucl_dist_nosqrt(x, y) ==
  FromInt(np_sum(eucl_fill(x, y, [k \in 1..Len(x) |-> 0], 0)))

\* eucl_dist whose loop stops one short, range(x.shape[0] - 1), and leaves
\* the last cell of z as np.empty made it
eucl_dist_short(x, y) ==
  np_sqrt(np_sum(eucl_fill(SubSeq(x, 1, Len(x) - 1), SubSeq(y, 1, Len(x) - 1),
                           [k \in 1..Len(x) |-> 1], 0)))

\* eucl_dist(x, y); z = np.empty(x.shape) starts with arbitrary content
eucl_dist(x, y) == np_sqrt(np_sum(eucl_fill(x, y, [k \in 1..Len(x) |-> 0], 0)))

\* x - y and x**2 on 1-D arrays of one length
VSub(x, y) == [k \in 1..Len(x) |-> x[k] - y[k]]

VSquare(x) == [k \in 1..Len(x) |-> x[k] * x[k]]

\* the cell of loop2 with np.sqrt forgotten
loop2_cell_nosqrt(x, y) == FromInt(np_sum(VSquare(VSub(x, y))))

\* the cell of loop2: np.sqrt(np.sum((X[i] - X[j])**2))
loop2_cell(x, y) == np_sqrt(np_sum(VSquare(VSub(x, y))))

\* the row of broadcast1: np.sqrt(np.sum((X[i] - X)**2, axis=-1)); the row
\* X[i] is broadcast over the rows of X
broadcast1_row(x, A) ==
  [r \in 1..Len(A) |-> np_sqrt(np_sum(VSquare(VSub(x, A[r]))))]

\* X.reshape(m, 1, n) - X.reshape(1, m, n): the (m, m, n) array of differences
reshape_sub(A) ==
  [a \in 1..Len(A) |-> [b \in 1..Len(A) |-> VSub(A[a], A[b])]]

\* np.empty((n, m)): an uninitialised array; every cell holds whatever the
\* memory held, here the value g
np_empty(n, m, g) == [r \in 1..n |-> [c \in 1..m |-> g]]

\* what uninitialised memory may hold
Garbage == {FZero, FromInt(-1)}

\* the step of loop1 with the indices of Z swapped: Z[j, i] = ...
loop1_step_transposed(A, Z, i, j) ==
  [Z EXCEPT ![j + 1][i + 1] = eucl_dist(A[i + 1], A[j + 1])]

\* one inner step of loop1: Z[i, j] = eucl_dist(X[i], X[j])
loop1_step(A, Z, i, j) ==
  [Z EXCEPT ![i + 1][j + 1] = eucl_dist(A[i + 1], A[j + 1])]

\* the step of loop2 that fills the upper triangle only and mirrors nothing
loop2_step_upper(A, Z, i, j) ==
  IF j < i THEN Z
  ELSE [Z EXCEPT ![i + 1][j + 1] = loop2_cell(A[i + 1], A[j + 1])]

\* one inner step of loop2: Z[i, j] = np.sqrt(np.sum((X[i] - X[j])**2))
loop2_step(A, Z, i, j) ==
  [Z EXCEPT ![i + 1][j + 1] = loop2_cell(A[i + 1], A[j + 1])]

\* one outer step of broadcast1: Z[i] = np.sqrt(np.sum((X[i] - X)**2, axis=-1))
broadcast1_step(A, Z, i) == [Z EXCEPT ![i + 1] = broadcast1_row(A[i + 1], A)]

\* for i in range(n): for j in range(n): of loop1, from (i, j) on
RECURSIVE loop1_from(_, _, _, _)
loop1_from(A, Z, i, j) ==
  IF i >= Len(A) THEN Z
  ELSE IF j >= Len(A) THEN loop1_from(A, Z, i + 1, 0)
  ELSE loop1_from(A, loop1_step(A, Z, i, j), i, j + 1)

RECURSIVE loop2_from(_, _, _, _)
loop2_from(A, Z, i, j) ==
  IF i >= Len(A) THEN Z
  ELSE IF j >= Len(A) THEN loop2_from(A, Z, i + 1, 0)
  ELSE loop2_from(A, loop2_step(A, Z, i, j), i, j + 1)

\* for i in range(n): of broadcast1, from i on
RECURSIVE broadcast1_from(_, _, _)
broadcast1_from(A, Z, i) ==
  IF i >= Len(A) THEN Z
  ELSE broadcast1_from(A, broadcast1_step(A, Z, i), i + 1)

\* loop1(X) on a 2-D array, Z allocated over garbage g
loop1(A, g) == loop1_from(A.data, np_empty(A.shape[1], A.shape[1], g), 0, 0)

loop2(A, g) == loop2_from(A.data, np_empty(A.shape[1], A.shape[1], g), 0, 0)

broadcast1(A, g) ==
  broadcast1_from(A.data, np_empty(A.shape[1], A.shape[1], g), 0)

\* broadcast2(X) on a 2-D array: m, n = X.shape;
\* Z = np.sqrt(np.sum((X.reshape(m, 1, n) - X.reshape(1, m, n))**2, axis=-1))
broadcast2(A) ==
  LET m == A.shape[1]
      T == reshape_sub(A.data)
  IN  [a \in 1..m |-> [b \in 1..m |-> np_sqrt(np_sum(VSquare(T[a][b])))]]

\* scipy's pdist(X): the Euclidean distances of the row pairs i < j in the
\* order (0,1), (0,2), ..., (1,2), ...; each is sqrt of the sum of d*d
RECURSIVE pdist_from(_, _, _)
pdist_from(A, i, j) ==
  IF i >= Len(A) THEN <<>>
  ELSE IF j > Len(A) THEN pdist_from(A, i + 1, i + 2)
  ELSE <<np_sqrt(np_sum(VSquare(VSub(A[i], A[j]))))>> \o pdist_from(A, i, j + 1)

pdist(A) == pdist_from(A.data, 1, 2)

\* scipy's squareform(v): the n x n symmetric matrix with zero diagonal of
\* the condensed vector v of length n(n-1)/2
squareform(v) ==
  LET n == CHOOSE k \in 1..(Len(v) + 1) : k * (k - 1) = 2 * Len(v)
      at(a, b) == v[n * (a - 1) - ((a - 1) * a) \div 2 + (b - a)]
  IN  [a \in 1..n |-> [b \in 1..n |->
        IF a = b THEN FZero ELSE IF a < b THEN at(a, b) ELSE at(b, a)]]

\* np.allclose(Z, Z1) with the defaults rtol = 1e-5, atol = 1e-8:
\* |a - b| <= atol + rtol * |b| in every cell, decided exactly here
IsClose(a, b) ==
  \/ a = b
  \/ /\ a.sgn = b.sgn
     /\ LET lo == FMin(FMin(a.exp, b.exp), Precision - 1)
            am == BShl(a.man, a.exp - lo)
            bm == BShl(b.man, b.exp - lo)
            df == IF BCmp(am, bm) >= 0 THEN BSub(am, bm) ELSE BSub(bm, am)
        IN  BCmp(BMul(df, BFromNat(100000000)),
                 BAdd(BShl(<<1>>, Precision - 1 - lo), BMulSmall(bm, 1000))) <= 0

allclose(A, B) ==
  /\ Len(A) = Len(B)
  /\ \A r \in 1..Len(A) :
       /\ Len(A[r]) = Len(B[r])
       /\ \A c \in 1..Len(A[r]) : IsClose(A[r][c], B[r][c])

VARIABLES
  X,        \* the notebook's global X
  Z1,       \* the notebook's global Z1 = squareform(pdist(X))
  y,        \* the notebook's global y of the product cells
  pc,       \* the statement the notebook is at
  res,      \* what each function of the running cell returned, by name
  fn,       \* the function of the call in progress
  arg,      \* the array passed to it
  Z,        \* its local Z; the returned array once pc = "done"
  i,        \* its outer loop variable
  j,        \* its inner loop variable
  err,      \* the exception it raised
  steps,    \* loop bodies it has executed
  nwrites,  \* how often each cell of Z was assigned
  writers,  \* the outer steps that assigned each cell of Z
  memo,     \* the first call that returned: its argument and result
  todo,     \* outer steps no worker has taken yet
  task      \* each worker's outer step and inner loop variable

globals == <<X, Z1, y>>

frame == <<fn, arg, Z, i, j, err>>

ghost == <<steps, nwrites, writers, memo>>

workers == <<todo, task>>

vars == <<X, Z1, y, pc, res, fn, arg, Z, i, j, err, steps, nwrites, writers,
          memo, todo, task>>

NoArray == [shape |-> <<>>, data |-> <<>>]

NoMemo == [set |-> FALSE, arg |-> NoArray, Z |-> <<>>]

\* no call in progress
NoFrame ==
  /\ fn = "none"
  /\ arg = NoArray
  /\ Z = <<>>
  /\ i = 0
  /\ j = 0
  /\ err = "none"
  /\ steps = 0
  /\ nwrites = <<>>
  /\ writers = <<>>

NoWorkers == todo = {} /\ task = <<>>

\* check(Z): assert np.allclose(Z, Z1), Z1 read from the global scope
check(M) == allclose(M, Z1)

(***************************************************************************)
(* The benchmark cell: X and Z1 are set, then perf(loop1), perf(loop2),    *)
(* perf(broadcast1), perf(broadcast2) call each function on the global X.  *)
(***************************************************************************)
Init ==
  /\ X \in Datasets(MaxVal)
  /\ Z1 = squareform(pdist(X))
  /\ y = <<>>
  /\ pc = "loop1"
  /\ res = <<>>
  /\ NoFrame
  /\ memo = NoMemo
  /\ NoWorkers

\* perf(func): func(X) on the global X; res keeps what the call returned
perf(name, value, next) ==
  /\ pc = name
  /\ res' = res @@ (name :> value)
  /\ pc' = next
  /\ UNCHANGED <<globals, frame, ghost, workers>>

PerfLoop1 == \E g \in Garbage : perf("loop1", loop1(X, g), "loop2")

PerfLoop2 == \E g \in Garbage : perf("loop2", loop2(X, g), "broadcast1")

PerfBroadcast1 ==
  \E g \in Garbage : perf("broadcast1", broadcast1(X, g), "broadcast2")

PerfBroadcast2 == perf("broadcast2", broadcast2(X), "end")

Next == PerfLoop1 \/ PerfLoop2 \/ PerfBroadcast1 \/ PerfBroadcast2

Spec == Init /\ [][Next]_vars

(***************************************************************************)
(* Calls of the four functions, one loop body at a time.  The notebook's   *)
(* global X is the benchmark data or the array an earlier cell assigns;    *)
(* a call passes the global X, the argument of the first call that         *)
(* returned, or an array that is no well-formed data set.                  *)
(***************************************************************************)
\* X = np.array([[1, 4], [2, 5], [3, 6]]) of the broadcasting example
CellX == [shape |-> <<3, 2>>, data |-> <<<<1, 4>>, <<2, 5>>, <<3, 6>>>>]

IsArray2(A) == Len(A.shape) = 2

IsEmpty(A) == IsArray2(A) /\ A.shape[1] = 0

IsRagged(A) == Len(A.shape) = 1

IsDataset(A) == IsArray2(A) /\ A.shape[1] >= 1 /\ A.shape[2] >= 1

\* A without its rows: shape (0, d)
EmptyLike(A) == [shape |-> <<0, A.shape[2]>>, data |-> <<>>]

\* A with the last value of one row dropped: rows of unequal lengths
Truncated(A) ==
  IF A.shape[1] < 2 THEN {}
  ELSE {[shape |-> <<A.shape[1]>>,
         data |-> [A.data EXCEPT ![r] = SubSeq(@, 1, Len(@) - 1)]] :
          r \in 1..A.shape[1]}

Args ==
  {X} \cup (IF memo.set THEN {memo.arg} ELSE {}) \cup {EmptyLike(X)}
      \cup Truncated(X)

\* a body that reads the global X, not its parameter
call_arg_global(A, G) == G

\* the name X in a function body is the parameter, which shadows the global
call_arg(A, G) == A

\* the array the running call reads
D == call_arg(arg, X)

\* x.shape in eucl_dist, x an element of an object array: a list has no shape
loop1_error(A) == IF IsRagged(A) THEN "AttributeError" ELSE "none"

\* X[i] - X[j] on two lists
loop2_error(A) == IF IsRagged(A) THEN "TypeError" ELSE "none"

\* X[i] - X on a list and an object array of lists: the list becomes an
\* array that must broadcast against shape (n,), then number - list fails
broadcast1_error(A, r) ==
  IF ~IsRagged(A) THEN "none"
  ELSE IF Len(A.data[r + 1]) \in {1, A.shape[1]} THEN "TypeError"
  ELSE "ValueError"

\* the unpacking that also refuses an array without rows
unpack_error_strict(shape) ==
  IF Len(shape) # 2 \/ shape[1] = 0 THEN "ValueError" ELSE "none"

\* m, n = X.shape
unpack_error(shape) == IF Len(shape) # 2 THEN "ValueError" ELSE "none"

StepInit ==
  /\ X \in Datasets(StepMaxVal)
  /\ Z1 = squareform(pdist(X))
  /\ y = <<>>
  /\ pc = "idle"
  /\ res = <<>>
  /\ NoFrame
  /\ memo = NoMemo
  /\ NoWorkers

\* an earlier cell runs again and assigns the global X
RunCell ==
  /\ pc = "idle"
  /\ X # CellX
  /\ X' = CellX
  /\ UNCHANGED <<Z1, y, pc, res, frame, ghost, workers>>

\* n = X.shape[0]; Z = np.empty((n, n)) of loop1, loop2 and broadcast1
CallLoop(f, A, g) ==
  /\ pc = "idle"
  /\ f \in {"loop1", "loop2", "broadcast1"}
  /\ fn' = f
  /\ arg' = A
  /\ LET n == call_arg(A, X).shape[1]
     IN  /\ Z' = np_empty(n, n, g)
         /\ nwrites' = np_empty(n, n, 0)
         /\ writers' = np_empty(n, n, {})
  /\ i' = 0
  /\ j' = 0
  /\ steps' = 0
  /\ pc' = "run"
  /\ UNCHANGED <<globals, res, err, memo, workers>>

\* broadcast2(X): one expression
CallBroadcast2(A) ==
  /\ pc = "idle"
  /\ fn' = "broadcast2"
  /\ arg' = A
  /\ IF unpack_error(call_arg(A, X).shape) # "none"
     THEN /\ err' = unpack_error(call_arg(A, X).shape)
          /\ pc' = "raised"
          /\ Z' = Z
     ELSE /\ Z' = broadcast2(call_arg(A, X))
          /\ pc' = "done"
          /\ err' = err
  /\ UNCHANGED <<globals, res, i, j, ghost, workers>>

Raise(e) ==
  /\ err' = e
  /\ pc' = "raised"
  /\ UNCHANGED <<globals, res, fn, arg, Z, i, j, ghost, workers>>

\* the inner loop as range(i, n): the upper triangle only
loop_next_upper(a, b, n) ==
  IF b + 1 < n THEN <<a, b + 1>> ELSE <<a + 1, a + 1>>

\* for i in range(n): for j in range(n): the loop variables after the body
\* ran at (a, b)
loop_next(a, b, n) == IF b + 1 < n THEN <<a, b + 1>> ELSE <<a + 1, 0>>

\* the cell (i, j) is assigned by outer step i, and the inner loop moves on
Assign(newZ) ==
  /\ Z' = newZ
  /\ nwrites' = [nwrites EXCEPT ![i + 1][j + 1] = @ + 1]
  /\ writers' = [writers EXCEPT ![i + 1][j + 1] = @ \cup {i}]
  /\ steps' = steps + 1
  /\ i' = loop_next(i, j, D.shape[1])[1]
  /\ j' = loop_next(i, j, D.shape[1])[2]
  /\ UNCHANGED <<globals, pc, res, fn, arg, err, memo, workers>>

\* the body of the inner loop of loop1
Loop1Step ==
  /\ pc = "run"
  /\ fn = "loop1"
  /\ i < D.shape[1]
  /\ IF loop1_error(D) # "none"
     THEN Raise(loop1_error(D))
     ELSE Assign(loop1_step(D.data, Z, i, j))

\* the body of the inner loop of loop2
Loop2Step ==
  /\ pc = "run"
  /\ fn = "loop2"
  /\ i < D.shape[1]
  /\ IF loop2_error(D) # "none"
     THEN Raise(loop2_error(D))
     ELSE Assign(loop2_step(D.data, Z, i, j))

\* the body of the loop of broadcast1: the row i is assigned
Broadcast1Step ==
  /\ pc = "run"
  /\ fn = "broadcast1"
  /\ i < D.shape[1]
  /\ IF broadcast1_error(D, i) # "none"
     THEN Raise(broadcast1_error(D, i))
     ELSE /\ Z' = broadcast1_step(D.data, Z, i)
          /\ nwrites' = [nwrites EXCEPT ![i + 1] = [c \in DOMAIN @ |-> @[c] + 1]]
          /\ writers' =
               [writers EXCEPT ![i + 1] = [c \in DOMAIN @ |-> @[c] \cup {i}]]
          /\ steps' = steps + 1
          /\ i' = i + 1
          /\ UNCHANGED <<globals, pc, res, fn, arg, j, err, memo, workers>>

\* return Z, the loops exhausted
Return ==
  /\ pc = "run"
  /\ i >= D.shape[1]
  /\ pc' = "done"
  /\ UNCHANGED <<globals, res, frame, ghost, workers>>

\* the caller has the result or the exception; the frame is gone
Finish ==
  /\ pc \in {"done", "raised"}
  /\ memo' = IF pc = "done" /\ ~memo.set
             THEN [set |-> TRUE, arg |-> arg, Z |-> Z]
             ELSE memo
  /\ pc' = "idle"
  /\ fn' = "none"
  /\ arg' = NoArray
  /\ Z' = <<>>
  /\ i' = 0
  /\ j' = 0
  /\ err' = "none"
  /\ steps' = 0
  /\ nwrites' = <<>>
  /\ writers' = <<>>
  /\ UNCHANGED <<globals, res, workers>>

StepNext ==
  \/ RunCell
  \/ \E f \in {"loop1", "loop2", "broadcast1"}, A \in Args, g \in Garbage :
       CallLoop(f, A, g)
  \/ \E A \in Args : CallBroadcast2(A)
  \/ Loop1Step
  \/ Loop2Step
  \/ Broadcast1Step
  \/ Return
  \/ Finish

SpecStep == StepInit /\ [][StepNext]_vars

(***************************************************************************)
(* The outer loop of loop1, loop2 and broadcast1 shared by workers: each   *)
(* outer step i is taken by one worker, in any order, and the workers'     *)
(* loop bodies interleave.                                                 *)
(***************************************************************************)
Workers == 1..NWorkers

IdleTask == [row |-> -1, col |-> 0]

ParInit ==
  /\ X \in Datasets(StepMaxVal)
  /\ Z1 = squareform(pdist(X))
  /\ y = <<>>
  /\ pc = "par"
  /\ res = <<>>
  /\ fn \in {"loop1", "loop2", "broadcast1"}
  /\ arg = X
  /\ \E g \in Garbage : Z = np_empty(X.shape[1], X.shape[1], g)
  /\ i = 0
  /\ j = 0
  /\ err = "none"
  /\ steps = 0
  /\ nwrites = np_empty(X.shape[1], X.shape[1], 0)
  /\ writers = np_empty(X.shape[1], X.shape[1], {})
  /\ memo = NoMemo
  /\ todo = 0..(X.shape[1] - 1)
  /\ task = [w \in Workers |-> IdleTask]

\* a worker without an outer step takes one that is left
Take(w) ==
  /\ pc = "par"
  /\ task[w] = IdleTask
  /\ \E r \in todo :
       /\ task' = [task EXCEPT ![w] = [row |-> r, col |-> 0]]
       /\ todo' = todo \ {r}
  /\ UNCHANGED <<globals, pc, res, frame, ghost>>

\* the body of the inner loop of loop1 or loop2 at the worker's (row, col)
ParCell(w) ==
  /\ pc = "par"
  /\ fn \in {"loop1", "loop2"}
  /\ task[w] # IdleTask
  /\ LET r == task[w].row
         c == task[w].col
     IN  /\ Z' = IF fn = "loop1" THEN loop1_step(D.data, Z, r, c)
                 ELSE loop2_step(D.data, Z, r, c)
         /\ nwrites' = [nwrites EXCEPT ![r + 1][c + 1] = @ + 1]
         /\ writers' = [writers EXCEPT ![r + 1][c + 1] = @ \cup {r}]
         /\ task' = [task EXCEPT ![w] =
                       IF loop_next(r, c, D.shape[1])[1] = r
                       THEN [row |-> r, col |-> loop_next(r, c, D.shape[1])[2]]
                       ELSE IdleTask]
  /\ steps' = steps + 1
  /\ UNCHANGED <<globals, pc, res, fn, arg, i, j, err, memo, todo>>

\* the body of the loop of broadcast1 at the worker's row
ParRow(w) ==
  /\ pc = "par"
  /\ fn = "broadcast1"
  /\ task[w] # IdleTask
  /\ LET r == task[w].row
     IN  /\ Z' = broadcast1_step(D.data, Z, r)
         /\ nwrites' = [nwrites EXCEPT ![r + 1] = [c \in DOMAIN @ |-> @[c] + 1]]
         /\ writers' =
              [writers EXCEPT ![r + 1] = [c \in DOMAIN @ |-> @[c] \cup {r}]]
  /\ task' = [task EXCEPT ![w] = IdleTask]
  /\ steps' = steps + 1
  /\ UNCHANGED <<globals, pc, res, fn, arg, i, j, err, memo, todo>>

\* every outer step was taken and has ended: return Z
Join ==
  /\ pc = "par"
  /\ todo = {}
  /\ \A w \in Workers : task[w] = IdleTask
  /\ pc' = "done"
  /\ UNCHANGED <<globals, res, frame, ghost, workers>>

ParNext ==
  \/ \E w \in Workers : Take(w)
  \/ \E w \in Workers : ParCell(w)
  \/ \E w \in Workers : ParRow(w)
  \/ Join

SpecPar == ParInit /\ [][ParNext]_vars

(***************************************************************************)
(* The product cells: x * y on two vectors (mult_vect, mult_loop), and     *)
(* X * y on a matrix and a vector (mult_vect, mult_loop_vect, mult_loop).  *)
(***************************************************************************)
\* the product cells' data holds values 0..MultMaxVal
MultMaxVal == 2

Array1(n, v) == {[shape |-> <<n>>, data |-> m] : m \in [1..n -> 0..v]}

\* A * B of numpy on a vector or matrix A and a vector B as long as A's last
\* axis: B is broadcast over the rows of A
np_mul(A, B) ==
  IF Len(A.shape) = 1
  THEN [shape |-> A.shape, data |-> [k \in 1..A.shape[1] |-> A.data[k] * B.data[k]]]
  ELSE [shape |-> A.shape,
        data |-> [r \in 1..A.shape[1] |->
                    [c \in 1..A.shape[2] |-> A.data[r][c] * B.data[c]]]]

\* def mult_vect(x, y): return x * y, of both cells
mult_vect(A, B) == np_mul(A, B)

\* mult_loop of the first cell: z[i] = x[i] * y[i] for i in range(x.shape[0])
RECURSIVE mult_loop1_from(_, _, _, _)
mult_loop1_from(A, B, z, k) ==
  IF k >= A.shape[1] THEN z
  ELSE mult_loop1_from(A, B, [z EXCEPT ![k + 1] = A.data[k + 1] * B.data[k + 1]],
                       k + 1)

mult_loop1(A, B, g) ==
  [shape |-> A.shape,
   data |-> mult_loop1_from(A, B, [k \in 1..A.shape[1] |-> g], 0)]

\* mult_loop_vect: Z[i,:] = X[i,:] * y for i in range(X.shape[0])
RECURSIVE mult_loop_vect_from(_, _, _, _)
mult_loop_vect_from(A, B, M, r) ==
  IF r >= A.shape[1] THEN M
  ELSE mult_loop_vect_from(A, B,
         [M EXCEPT ![r + 1] =
            np_mul([shape |-> <<A.shape[2]>>, data |-> A.data[r + 1]], B).data],
         r + 1)

mult_loop_vect(A, B, g) ==
  [shape |-> A.shape,
   data |-> mult_loop_vect_from(A, B, np_empty(A.shape[1], A.shape[2], g), 0)]

\* mult_loop of the second cell: Z[i, j] = X[i, j] * y[j] for i in
\* range(X.shape[0]), for j in range(X.shape[1])
RECURSIVE mult_loop_from(_, _, _, _, _)
mult_loop_from(A, B, M, r, c) ==
  IF r >= A.shape[1] THEN M
  ELSE IF c >= A.shape[2] THEN mult_loop_from(A, B, M, r + 1, 0)
  ELSE mult_loop_from(A, B,
         [M EXCEPT ![r + 1][c + 1] = A.data[r + 1][c + 1] * B.data[c + 1]],
         r, c + 1)

\* mult_loop whose inner loop is range(1, X.shape[1]): column 0 stays as
\* np.empty made it
RECURSIVE mult_loop_skip_from(_, _, _, _, _)
mult_loop_skip_from(A, B, M, r, c) ==
  IF r >= A.shape[1] THEN M
  ELSE IF c >= A.shape[2] THEN mult_loop_skip_from(A, B, M, r + 1, 1)
  ELSE mult_loop_skip_from(A, B,
         [M EXCEPT ![r + 1][c + 1] = A.data[r + 1][c + 1] * B.data[c + 1]],
         r, c + 1)

mult_loop_skip(A, B, g) ==
  [shape |-> A.shape,
   data |-> mult_loop_skip_from(A, B, np_empty(A.shape[1], A.shape[2], g), 0, 1)]

mult_loop(A, B, g) ==
  [shape |-> A.shape,
   data |-> mult_loop_from(A, B, np_empty(A.shape[1], A.shape[2], g), 0, 0)]

\* what np.empty of the product cells may hold
MultGarbage == {0, -1}

MultInit ==
  /\ \/ /\ pc = "mult_vect_1d"
        /\ \E n \in 1..MaxN :
             X \in Array1(n, MultMaxVal) /\ y \in Array1(n, MultMaxVal)
     \/ /\ pc = "mult_vect"
        /\ \E n \in 1..MaxN, d \in 1..MaxDim :
             X \in Array2(n, d, MultMaxVal) /\ y \in Array1(d, MultMaxVal)
  /\ Z1 = <<>>
  /\ res = <<>>
  /\ NoFrame
  /\ memo = NoMemo
  /\ NoWorkers

Returns(name, value, next) ==
  /\ pc = name
  /\ res' = res @@ (name :> value)
  /\ pc' = next
  /\ UNCHANGED <<globals, frame, ghost, workers>>

\* the first cell: assert np.all(mult_vect(x, y) == mult_loop(x, y))
MultVect1 == Returns("mult_vect_1d", mult_vect(X, y), "mult_loop_1d")

MultLoop1 ==
  \E g \in MultGarbage : Returns("mult_loop_1d", mult_loop1(X, y, g), "end")

\* the second cell: assert np.all(mult_vect(X, y) == mult_loop_vect(X, y))
\* and assert np.all(mult_vect(X, y) == mult_loop(X, y))
MultVect2 == Returns("mult_vect", mult_vect(X, y), "mult_loop_vect")

MultLoopVect ==
  \E g \in MultGarbage :
    Returns("mult_loop_vect", mult_loop_vect(X, y, g), "mult_loop")

MultLoop2 ==
  \E g \in MultGarbage : Returns("mult_loop", mult_loop(X, y, g), "end")

MultNext == MultVect1 \/ MultLoop1 \/ MultVect2 \/ MultLoopVect \/ MultLoop2

SpecMult == MultInit /\ [][MultNext]_vars

(***************************************************************************)
(* Properties of the benchmark cell.                                       *)
(***************************************************************************)
AllNames == {"loop1", "loop2", "broadcast1", "broadcast2"}

\* the function whose call returned last
Latest ==
  CASE pc = "loop2" -> {"loop1"}
    [] pc = "broadcast1" -> {"loop2"}
    [] pc = "broadcast2" -> {"broadcast1"}
    [] pc = "end" -> {"broadcast2"}
    [] OTHER -> {}

\* the float64 of the small integers
IntFloat == [k \in 0..5 |-> FromInt(k)]

\* the sums of two square roots in use, float64 addition
SumTable ==
  LET roots == {SqrtTable[s] : s \in DOMAIN SqrtTable}
  IN  [p \in roots \X roots |-> FAdd(p[1], p[2])]

\* a + b in float64
Plus(a, b) ==
  IF <<a, b>> \in DOMAIN SumTable THEN SumTable[<<a, b>>] ELSE FAdd(a, b)

\* sum over k of (x[k] - y[k])^2
RECURSIVE SumSq(_, _, _)
SumSq(u, v, k) ==
  IF k = 0 THEN 0 ELSE SumSq(u, v, k - 1) + (u[k] - v[k]) * (u[k] - v[k])

IsSquare(M, n) == Len(M) = n /\ \A r \in 1..n : Len(M[r]) = n

\* C1: for a data set of shape (n, d), n >= 1, d >= 1, each function returns
\* an (n, n) matrix with M[i][j] = sqrt(sum over k of (D[i][k] - D[j][k])^2);
\* [[0,0],[3,4]] gives [[0,5],[5,0]], [[0],[1],[3]] gives
\* [[0,1,3],[1,0,2],[3,2,0]]
C1_DistanceMatrix ==
  \A f \in Latest :
    LET n == X.shape[1]
        d == X.shape[2]
        M == res[f]
    IN  /\ IsSquare(M, n)
        /\ \A a, b \in 1..n :
             M[a][b] = np_sqrt(SumSq(X.data[a], X.data[b], d))
        /\ X.data = <<<<0, 0>>, <<3, 4>>>> =>
             M = <<<<IntFloat[0], IntFloat[5]>>, <<IntFloat[5], IntFloat[0]>>>>
        /\ X.data = <<<<0>>, <<1>>, <<3>>>> =>
             M = << <<IntFloat[0], IntFloat[1], IntFloat[3]>>,
                    <<IntFloat[1], IntFloat[0], IntFloat[2]>>,
                    <<IntFloat[3], IntFloat[2], IntFloat[0]>> >>

C1_Witness ==
  /\ pc = "end"
  /\ DOMAIN res = AllNames
  /\ X.data = <<<<0, 0>>, <<3, 4>>>>
  /\ res["loop1"][1][2] = IntFloat[5]

\* C2: loop1, loop2, broadcast1 and broadcast2 return equal matrices, and
\* each agrees with the reference Z1 as check() compares them
C2_AllAgree ==
  /\ \A f, g \in DOMAIN res : res[f] = res[g]
  /\ \A f \in Latest : check(res[f])

C2_Witness ==
  /\ DOMAIN res = AllNames
  /\ X.shape = <<3, 2>>
  /\ \E a, b \in 1..3 : res["broadcast2"][a][b] \notin {IntFloat[k] : k \in 0..5}

\* C4: the returned matrix is symmetric
C4_Symmetric ==
  \A f \in Latest :
    \A a, b \in 1..X.shape[1] : res[f][a][b] = res[f][b][a]

C4_Witness ==
  /\ Latest = {"broadcast1"}
  /\ X.shape[1] = 3
  /\ res["broadcast1"][1][3] # FZero
  /\ res["broadcast1"][1][3] # res["broadcast1"][1][2]

\* C7 as stated: M[i][k] <= M[i][j] + M[j][k] for all i, j, k, and every
\* entry is >= 0
C7_Triangle ==
  \A f \in Latest :
    LET M == res[f]
        n == X.shape[1]
    IN  /\ \A a, b \in 1..n : M[a][b].sgn = 0
        /\ \A a, b, c \in 1..n : FLe(M[a][c], Plus(M[a][b], M[b][c]))

\* C7 amended: every entry is >= 0 and the triangle inequality holds within
\* the relative tolerance 1e-9: M[i][k] <= (M[i][j] + M[j][k]) * (1 + 1e-9)
C7_TriangleWithinTolerance ==
  \A f \in Latest :
    LET M == res[f]
        n == X.shape[1]
    IN  /\ \A a, b \in 1..n : M[a][b].sgn = 0
        /\ \A a, b, c \in 1..n : FLeWithin(M[a][c], Plus(M[a][b], M[b][c]))

C7_Witness ==
  /\ Latest = {"loop2"}
  /\ X.data = <<<<0, 0>>, <<1, 1>>, <<4, 4>>>>
  /\ ~FLe(res["loop2"][1][3], Plus(res["loop2"][1][2], res["loop2"][2][3]))

(***************************************************************************)
(* Properties of the stepwise calls.                                       *)
(***************************************************************************)
\* C3 as stated: an empty data set or rows of unequal lengths make the call
\* fail, and no distance matrix is returned
C3_InvalidInputFails == (IsEmpty(arg) \/ IsRagged(arg)) => pc # "done"

\* C3 amended: nothing validates the input.  An empty data set of shape
\* (0, d) raises nothing and the empty (0, 0) matrix is returned; rows of
\* unequal lengths, an object array of lists, raise AttributeError, TypeError
\* or ValueError at the first access, before any cell is assigned, and no
\* matrix is returned; nothing else raises
C3_NoValidation ==
  /\ IsEmpty(arg) => pc # "raised" /\ (pc = "done" => Z = <<>>)
  /\ IsRagged(arg) =>
       /\ pc # "done"
       /\ steps = 0
       /\ pc = "raised" => err \in {"AttributeError", "TypeError", "ValueError"}
  /\ pc = "raised" => IsRagged(arg)

C3_Witness ==
  /\ pc = "raised"
  /\ IsRagged(arg)
  /\ fn = "broadcast1"
  /\ memo.set
  /\ IsEmpty(memo.arg)
  /\ memo.Z = <<>>

\* C5: every diagonal entry is zero, two identical rows have distance 0, and
\* a single-row data set yields [[0]] and no error
C5_ZeroDiagonal ==
  IsDataset(arg) =>
    /\ pc # "raised"
    /\ pc = "done" =>
         /\ IsSquare(Z, arg.shape[1])
         /\ \A a \in 1..arg.shape[1] : Z[a][a] = FZero
         /\ \A a, b \in 1..arg.shape[1] :
              arg.data[a] = arg.data[b] => Z[a][b] = FZero
         /\ arg.shape[1] = 1 => Z = <<<<FZero>>>>

C5_Witness ==
  /\ pc = "done"
  /\ fn = "loop1"
  /\ arg.shape = <<1, 2>>
  /\ arg.data[1] # <<0, 0>>
  /\ Z = <<<<FZero>>>>

\* C6: a call leaves the global X, Z1 and its argument unchanged, and a call
\* on the data set of the first call that returned returns the same matrix,
\* whatever was called and whatever the globals were set to in between
C6_Pure ==
  [][/\ pc' # "idle" => X' = X /\ Z1' = Z1
     /\ pc = "run" => arg' = arg
     /\ (pc' = "done" /\ memo'.set /\ memo'.arg = arg') => Z' = memo'.Z]_vars

C6_Witness ==
  /\ pc = "done"
  /\ memo.set
  /\ memo.arg = arg
  /\ X # arg
  /\ IsDataset(arg)
  /\ arg.shape[1] = 3
  /\ Z = memo.Z

\* C10: loop1 and loop2 return after exactly n*n inner steps, broadcast1
\* after exactly n outer steps; no cell of Z is assigned twice, the call
\* never stops before it returns, and at the return every cell was assigned
C10_FillsEveryCellOnce ==
  (IsDataset(arg) /\ fn \in {"loop1", "loop2", "broadcast1"}) =>
    LET n     == arg.shape[1]
        total == IF fn = "broadcast1" THEN n ELSE n * n
    IN  /\ \A a, b \in 1..n : nwrites[a][b] <= 1
        /\ pc = "run" =>
             /\ steps <= total
             /\ ENABLED (Loop1Step \/ Loop2Step \/ Broadcast1Step \/ Return)
        /\ pc = "done" =>
             /\ steps = total
             /\ \A a, b \in 1..n : nwrites[a][b] = 1

C10_Witness ==
  /\ pc = "done"
  /\ fn = "loop1"
  /\ arg.shape[1] = 3
  /\ steps = 9

(***************************************************************************)
(* Properties of the shared outer loop.                                    *)
(***************************************************************************)
\* what the sequential function returns on the data set
Sequential ==
  CASE fn = "loop1" -> loop1(arg, FZero)
    [] fn = "loop2" -> loop2(arg, FZero)
    [] fn = "broadcast1" -> broadcast1(arg, FZero)

\* C9: a loop body changes only cells of the row of its own outer step, and
\* only cells no step has assigned; it leaves the data set alone; and when
\* every outer step has ended, in whatever order and interleaving, Z is the
\* matrix the sequential order i = 0..n-1 produces
C9_RowsIndependent ==
  [][/\ \A a \in 1..Len(Z), b \in 1..Len(Z) :
          Z'[a][b] # Z[a][b] =>
            /\ \E w \in Workers : task'[w] # task[w] /\ task[w].row = a - 1
            /\ writers[a][b] = {}
     /\ \A a \in 1..Len(Z), b \in 1..Len(Z) : writers'[a][b] \subseteq {a - 1}
     /\ arg' = arg /\ X' = X
     /\ pc' = "done" => Z' = Sequential]_vars

C9_Witness ==
  /\ pc = "par"
  /\ fn = "loop2"
  /\ X.shape[1] = 3
  /\ todo = {1}
  /\ task[1] = [row |-> 2, col |-> 1]
  /\ task[2] = [row |-> 0, col |-> 2]
  /\ writers[3][1] = {2}
  /\ writers[1][2] = {0}

(***************************************************************************)
(* Properties of the product cells.                                        *)
(***************************************************************************)
\* C8: mult_vect, mult_loop_vect and mult_loop return the same (r, c) matrix
\* with entry (i, j) = X[i][j] * y[j]; on two vectors of one length the
\* vectorized and the looped product are equal element for element
C8_ProductsAgree ==
  /\ \A f, g \in DOMAIN res : res[f] = res[g]
  /\ \A f \in DOMAIN res :
       /\ res[f].shape = X.shape
       /\ Len(res[f].data) = X.shape[1]
       /\ \A r \in 1..X.shape[1] :
            IF Len(X.shape) = 1
            THEN res[f].data[r] = X.data[r] * y.data[r]
            ELSE /\ Len(res[f].data[r]) = X.shape[2]
                 /\ \A c \in 1..X.shape[2] :
                      res[f].data[r][c] = X.data[r][c] * y.data[c]

C8_Witness ==
  /\ pc = "end"
  /\ DOMAIN res = {"mult_vect", "mult_loop_vect", "mult_loop"}
  /\ X.shape = <<3, 2>>
  /\ y.data = <<1, 2>>
  /\ res["mult_loop"].data[3] = <<2, 4>>
====
